---- MODULE Spec2Model ----
(***************************************************************************)
(* dpts1viewer: device discovery and streaming frame acquisition.          *)
(*                                                                         *)
(* The module models                                                       *)
(*   - device.Refresh of src/main.go (atomic variant, lines 217-269):      *)
(*     dial, byte-at-a-time scan for ENDTAG and PORTRAIT, JPEG decode,     *)
(*     compare-and-swap of the orientation flag, store of the frame;       *)
(*   - getDPTS1Addr of src/unnamed/part_000 (UDP probe, "strategy A");     *)
(*   - getDPTS1AddrPolling of src/unnamed/part_000 (parallel TCP connect   *)
(*     scan, "strategy B");                                                *)
(*   - main of src/main.go (lines 314-331): the first Refresh, the         *)
(*     goroutine that calls Refresh for ever, and Draw, Layout and Update  *)
(*     that ebiten calls beside it;                                        *)
(*   - the variant of src/main.go:1-170 that publishes display, x and y    *)
(*     under d.lock, with its Draw and Layout.                             *)
(*                                                                         *)
(* A byte is a one-character string; "SOI" and "EOI" stand for the JPEG    *)
(* start-of-image and end-of-image markers.                                *)
(***************************************************************************)
EXTENDS Naturals, Sequences, FiniteSets, TLC

VARIABLES
    \* ---- device.Refresh, src/main.go:217-269
    rpc,        \* position of the Refresh call: idle, scan, decode, orient (behind
                \* jpeg.Decode), store; in the mutex variant xdisplay, xbounds,
                \* xx, xy, xunlock behind d.lock.Lock()
    conn,       \* segments not yet read from the TCP connection
    connOpen,   \* the connection of this call is open
    buffer,     \* d.buffer: bytes read from conn and not yet consumed
    demidx,     \* idx of ENDTAG we are matching next
    poridx,     \* idx of PORTRAIT we are matching next
    jst,        \* jpeg.Decode: "soi" before the first byte, "body" after it
    landscape,  \* d.landscape (atomic.Bool)
    display,    \* d.display (atomic.Pointer): 0 is nil, n the image of call n
    calls,      \* number of Refresh calls started
    ret,        \* what the last call returned: none, ok, dialerr, scanerr, decodeerr
    resize,     \* ebiten.SetWindowSize of the last call: none, or the size set
    scanned,    \* history: bytes the scan loop consumed in this call
    decoded,    \* history: bytes jpeg.Decode consumed in this call
    decodeCalled, \* history: jpeg.Decode was called in this call
    orient      \* history: orientation the last call determined

VARIABLES
    \* ---- main and its goroutine, src/main.go:291-335
    mpc,        \* position of main: first (line 319), go (326), rungame (331)
    lpc,        \* the goroutine of lines 326-330: off, loop
    running,    \* Refresh calls each execution unit has in flight
    caller,     \* the execution unit of the Refresh call in flight
    window,     \* the size of the last ebiten.SetWindowSize; none before any
    openConns,  \* TCP connections dialled by Refresh and not closed
    \* ---- device.Draw and device.Layout, src/main.go:271-289
    dpc,        \* position of Draw: idle, loaded (after d.display.Load())
    drawImg,    \* img of Draw: what d.display.Load() returned
    drawn,      \* what the last Draw drew, as a sequence: [img, landscape]
    layout,     \* what the last Layout returned; none before any
    \* ---- history
    sent,       \* history: the stream of this call as the peer sent it
    pre,        \* history: d.landscape and d.display when this call started
    log         \* history: one entry per Refresh call that returned

mvars == <<mpc, lpc, running, caller, window, openConns>>

uvars == <<dpc, drawImg, drawn, layout>>

hvars == <<sent, pre, log>>

VARIABLES
    \* ---- the variant of src/main.go:1-170, which publishes under d.lock
    variant,    \* the variant of the program that runs: atomic, mutex
    xlock,      \* d.lock: free, or the function that holds it
    xdisplay,   \* d.display: <<>> is nil, else the bytes of the image
    xx,         \* d.x
    xy,         \* d.y
    xb,         \* Refresh: b, the bounds read at line 72
    xdpc,       \* position of Draw: idle, copy, unlock, test, panic
    xdimg,      \* Draw: what img was made from
    xdrawn,     \* the image on the screen, as a sequence
    xlpc,       \* position of Layout: idle, locked
    xlayout     \* what the last Layout returned

xvars == <<variant, xlock, xdisplay, xx, xy, xb, xdpc, xdimg, xdrawn, xlpc, xlayout>>

rvars == <<rpc, conn, connOpen, buffer, demidx, poridx, jst, landscape, display,
           calls, ret, resize, scanned, decoded, decodeCalled, orient,
           mvars, uvars, hvars, xvars>>

VARIABLES
    \* ---- getDPTS1Addr, src/unnamed/part_000:12-57
    strategy,   \* the discovery the caller selected: none, probe, polling
    apc,        \* position: off, start, ifloop, listen, write, read, returned
    ifaddrs,    \* what net.InterfaceAddrs returned
    ifidx,      \* the range loop over ifaddrs: entries visited
    laddr,      \* the matching interface address; <<>> is nil
    sock,       \* the UDP socket pc: none, open, closed
    deadline,   \* the socket's deadline: unset, set, passed
    probes,     \* datagrams written to the multicast address
    rcvdPkt,    \* the one-byte receive buffer
    raddr,      \* sender of the last datagram read; <<>> is nil
    lastPkt,    \* history: the last datagram read, if any, as a sequence
    aret        \* what getDPTS1Addr returned: [addr, err]; <<>> is ""

avars == <<apc, ifaddrs, ifidx, laddr, sock, deadline, probes, rcvdPkt, raddr,
           lastPkt, aret>>

VARIABLES
    \* ---- getDPTS1AddrPolling, src/unnamed/part_000:62-91
    accepting,  \* the hosts that accept a TCP connection on the port
    bpc,        \* position of the caller: off, spawn, select, recvd, returned
    spawned,    \* the loop variable i: goroutines started
    gpc,        \* position of each scan goroutine: idle, dial, send, done
    gconn,      \* the connection each goroutine dialled: none, open, closed
    cancelled,  \* ctx is cancelled
    timer,      \* the timer: unset, running, fired
    received,   \* the hosts whose connections were received from connCh, in order
    early,      \* history: hosts whose dial succeeded before the timer fired
    bret        \* what getDPTS1AddrPolling returned: [addr, err]; <<>> is ""

bvars == <<accepting, bpc, spawned, gpc, gconn, cancelled, timer, received, early, bret>>

dvars == <<strategy, avars, bvars>>

vars == <<rvars, dvars>>

----------------------------------------------------------------------------
(* Bounds *)

\* Longest stream of a connection, in segments.
MaxChunks == 4

\* Longest list of interface addresses.
MaxIfAddrs == 3

\* Hosts scanned; the code scans the 256 hosts of the subnet.
NumHosts == 3

\* Refresh calls of main and its goroutine together.
MaxCalls == 5

\* Refresh calls while the consumer runs beside them.
MaxUICalls == 3

----------------------------------------------------------------------------
(* Program constants *)

\* []byte{1}, the probe
Probe == 1

\* rcvdPkt[0] != 15, the ack
Ack == 15

\* "203.0.113.%d:54321"
Port == 54321

----------------------------------------------------------------------------
(* Byte strings *)

ENDTAG == <<"<", "/", "c", "o", "m", "m", "a", "n", "d", ">", "\n">>

PORTRAIT == <<"p", "o", "r", "t", "r", "a", "i", "t">>

\* The segments a connection is made of: a lone "<", a broken prefix of the
\* delimiter, the tail of the delimiter, a lone "p", the two patterns, two
\* JPEG images, the second with the bytes of PORTRAIT inside its data, and
\* the delimiter with an image behind it in the same segment.
Fragments ==
    { <<"<">>,
      <<"<", "/", "c", "o", "m", "m", ">">>,
      <<"a", "n", "d", ">", "\n">>,
      <<"p">>,
      PORTRAIT,
      ENDTAG,
      <<"SOI", "x", "EOI">>,
      <<"SOI">> \o PORTRAIT \o <<"EOI">>,
      ENDTAG \o <<"SOI", "x", "EOI">> }

Streams == UNION { [1..k -> Fragments] : k \in 0..MaxChunks }

RECURSIVE Flatten(_)
Flatten(ss) == IF ss = <<>> THEN <<>> ELSE Head(ss) \o Flatten(Tail(ss))

\* pat occurs in s ending at position i.
OccursAt(s, pat, i) ==
    /\ i >= Len(pat)
    /\ i <= Len(s)
    /\ \A k \in 1..Len(pat) : s[i - Len(pat) + k] = pat[k]

Contains(s, pat) == \E i \in 1..Len(s) : OccursAt(s, pat, i)

\* The end of the first occurrence of pat in s; 0 when there is none.
FirstEnd(s, pat) ==
    IF Contains(s, pat)
    THEN CHOOSE i \in 1..Len(s) :
            /\ OccursAt(s, pat, i)
            /\ \A j \in 1..(i - 1) : ~OccursAt(s, pat, j)
    ELSE 0

----------------------------------------------------------------------------
(* device.Refresh *)

\* The execution units that call Refresh: main (line 319) and the goroutine
\* of lines 326-330.
Units == {"main", "loop"}

\* What Refresh returns when it fails: net.Dial failed, the stream ended
\* before the delimiter, jpeg.Decode failed.
Errs == {"dialerr", "scanerr", "decodeerr"}

NextCursorNoReset(pat, idx, b) == IF b = pat[idx + 1] THEN idx + 1 ELSE idx

\* if b == pat[idx] { idx += 1 } else { idx = 0 }
NextCursor(pat, idx, b) == IF b = pat[idx + 1] THEN idx + 1 ELSE 0

DemNext(d, b) == NextCursor(ENDTAG, d, b)

\* if poridx < len(PORTRAIT) { ... }
PorNext(p, b) == IF p < Len(PORTRAIT) THEN NextCursor(PORTRAIT, p, b) ELSE p

LoopContinuesOffByOne(d) == d < Len(ENDTAG) - 1

\* for demidx < len(ENDTAG)
LoopContinues(d) == d < Len(ENDTAG)

PorDuringDecodeScanning(p, b) == PorNext(p, b)

\* poridx is not written between the loop exit and the test of line 254.
PorDuringDecode(p, b) == p

\* d.buffer.ReadByte(): the buffer is filled from the connection when empty.
CanRead == buffer # <<>> \/ conn # <<>>

Filled == IF buffer # <<>> THEN buffer ELSE Head(conn)

ConnAfterRead == IF buffer # <<>> THEN conn ELSE Tail(conn)

BufferKept(b) == b

\* d.buffer.Reset(conn) discards what the reader buffered of the earlier
\* connection (d.buffer is nil only in the first call).
BufferReset(b) == <<>>

NoCloseOnReturn(open) == open

\* defer conn.Close(): whether the connection is open after the return.
CloseOnReturn(open) == FALSE

DisplayBlankedOnError(d) == 0

\* The three "return err" leave d.display as it is.
DisplayOnError(d) == d

LoopStopsOnError(r) == r \notin Errs

\* for ;; { d.Refresh() }: the loop does not look at what Refresh returned.
LoopGoesOn(r) == TRUE

MayCallAsync(u) ==
    /\ u = "main" => mpc = "first" /\ calls = 0 /\ running[u] = 0
    /\ u = "loop" => lpc = "loop" /\ LoopGoesOn(ret)

\* d.Refresh() is a synchronous call: main calls it once (line 319), the
\* goroutine calls it again when the call before it has returned (line 328).
MayCall(u) ==
    /\ running[u] = 0
    /\ u = "main" => mpc = "first" /\ calls = 0
    /\ u = "loop" => lpc = "loop" /\ LoopGoesOn(ret)

\* The history entry of a call that returns r.
Entry(r) ==
    [sent |-> sent, ret |-> r, n |-> Len(scanned), orient |-> orient, resize |-> resize]

\* return, with the deferred conn.Close()
Return(r) ==
    /\ rpc' = "idle"
    /\ connOpen' = CloseOnReturn(connOpen)
    /\ openConns' = IF connOpen /\ ~connOpen' THEN openConns - 1 ELSE openConns
    /\ running' = [running EXCEPT ![caller] = @ - 1]
    /\ ret' = r
    /\ log' = Append(log, Entry(r))
    /\ UNCHANGED <<mpc, lpc, caller, window, sent, pre>>

\* Lines 218-230 when net.Dial succeeds, called by u on a connection that
\* delivers a stream of S.
DialBy(u, S, cap) ==
    /\ MayCall(u)
    /\ calls < cap
    /\ \E s \in S : conn' = s /\ sent' = s
    /\ connOpen' = TRUE
    /\ openConns' = openConns + 1
    /\ running' = [running EXCEPT ![u] = @ + 1]
    /\ caller' = u
    /\ buffer' = BufferReset(buffer)
    /\ demidx' = 0
    /\ poridx' = 0
    /\ jst' = "soi"
    /\ rpc' = "scan"
    /\ calls' = calls + 1
    /\ ret' = "none"
    /\ resize' = "none"
    /\ scanned' = <<>>
    /\ decoded' = <<>>
    /\ decodeCalled' = FALSE
    /\ orient' = "none"
    /\ pre' = [landscape |-> landscape, display |-> display]
    /\ UNCHANGED <<landscape, display, mpc, lpc, window, log>>
    /\ UNCHANGED uvars
    /\ UNCHANGED <<xvars, dvars>>

\* Lines 218-221 when net.Dial fails, called by u.
DialFailBy(u, cap) ==
    /\ MayCall(u)
    /\ calls < cap
    /\ calls' = calls + 1
    /\ ret' = "dialerr"
    /\ resize' = "none"
    /\ scanned' = <<>>
    /\ decoded' = <<>>
    /\ decodeCalled' = FALSE
    /\ orient' = "none"
    /\ sent' = <<>>
    /\ pre' = [landscape |-> landscape, display |-> display]
    /\ display' = DisplayOnError(display)
    /\ log' = Append(log, [sent |-> <<>>, ret |-> "dialerr", n |-> 0,
                           orient |-> "none", resize |-> "none"])
    /\ UNCHANGED <<rpc, conn, connOpen, buffer, demidx, poridx, jst, landscape>>
    /\ UNCHANGED mvars
    /\ UNCHANGED uvars
    /\ UNCHANGED <<xvars, dvars>>

Dial(cap) == DialBy("main", Streams, cap)

DialFail(cap) == DialFailBy("main", cap)

ScanStep ==
    /\ rpc = "scan"
    /\ CanRead
    /\ LET b == Head(Filled)
           d == DemNext(demidx, b)
       IN  /\ buffer' = Tail(Filled)
           /\ conn' = ConnAfterRead
           /\ demidx' = d
           /\ poridx' = PorNext(poridx, b)
           /\ scanned' = Append(scanned, b)
           /\ rpc' = IF LoopContinues(d) THEN "scan" ELSE "decode"
           /\ decodeCalled' = ~LoopContinues(d)
    /\ UNCHANGED <<connOpen, jst, landscape, display, calls, ret, resize, decoded, orient>>
    /\ UNCHANGED <<mvars, uvars, hvars>>
    /\ UNCHANGED <<xvars, dvars>>

ScanEOF ==
    /\ rpc = "scan"
    /\ ~CanRead
    /\ Return("scanerr")
    /\ display' = DisplayOnError(display)
    /\ UNCHANGED <<conn, buffer, demidx, poridx, jst, landscape, calls,
                   resize, scanned, decoded, decodeCalled, orient>>
    /\ UNCHANGED uvars
    /\ UNCHANGED <<xvars, dvars>>

\* jpeg.Decode reads on from d.buffer: the image starts with SOI and ends at EOI.
DecodeStep ==
    /\ rpc = "decode"
    /\ CanRead
    /\ LET b == Head(Filled)
       IN  /\ buffer' = Tail(Filled)
           /\ conn' = ConnAfterRead
           /\ decoded' = Append(decoded, b)
           /\ poridx' = PorDuringDecode(poridx, b)
           /\ IF jst = "soi" /\ b # "SOI"
              THEN /\ Return("decodeerr")
                   /\ display' = DisplayOnError(display)
                   /\ jst' = jst
              ELSE /\ jst' = "body"
                   /\ rpc' = IF jst = "body" /\ b = "EOI" THEN "orient" ELSE "decode"
                   /\ UNCHANGED <<connOpen, ret, display>>
                   /\ UNCHANGED <<mvars, hvars>>
    /\ UNCHANGED <<demidx, landscape, calls, resize, scanned, decodeCalled, orient>>
    /\ UNCHANGED uvars
    /\ UNCHANGED <<xvars, dvars>>

DecodeEOF ==
    /\ rpc = "decode"
    /\ ~CanRead
    /\ Return("decodeerr")
    /\ display' = DisplayOnError(display)
    /\ UNCHANGED <<conn, buffer, demidx, poridx, jst, landscape, calls,
                   resize, scanned, decoded, decodeCalled, orient>>
    /\ UNCHANGED uvars
    /\ UNCHANGED <<xvars, dvars>>

CompareAndSwapNever(cur, old, new) == cur

\* d.landscape.CompareAndSwap(old, new): the value afterwards.
CompareAndSwap(cur, old, new) == IF cur = old THEN new ELSE cur

SwappedAlways(cur, old) == TRUE

\* d.landscape.CompareAndSwap(old, new): what the call returns.
Swapped(cur, old) == cur = old

\* Lines 254-265: the orientation test and the compare-and-swap;
\* SetWindowSize is called when the swap happened.
OrientStep ==
    /\ variant = "atomic"
    /\ rpc = "orient"
    /\ rpc' = "store"
    /\ IF poridx # Len(PORTRAIT)
       THEN /\ orient' = "landscape"
            /\ landscape' = CompareAndSwap(landscape, FALSE, TRUE)
            /\ resize' = IF Swapped(landscape, FALSE) THEN "800x600" ELSE resize
       ELSE /\ orient' = "portrait"
            /\ landscape' = CompareAndSwap(landscape, TRUE, FALSE)
            /\ resize' = IF Swapped(landscape, TRUE) THEN "600x800" ELSE resize
    /\ window' = IF resize' # "none" THEN resize' ELSE window
    /\ UNCHANGED <<conn, connOpen, buffer, demidx, poridx, jst, display, calls, ret,
                   scanned, decoded, decodeCalled>>
    /\ UNCHANGED <<mpc, lpc, running, caller, openConns>>
    /\ UNCHANGED <<uvars, hvars>>
    /\ UNCHANGED <<xvars, dvars>>

\* Lines 266-268: d.display.Store(newImg); return nil
StoreStep ==
    /\ rpc = "store"
    /\ display' = calls
    /\ Return("ok")
    /\ UNCHANGED <<conn, buffer, demidx, poridx, jst, landscape, calls, resize,
                   scanned, decoded, decodeCalled, orient>>
    /\ UNCHANGED uvars
    /\ UNCHANGED <<xvars, dvars>>

\* The device literal of lines 314-318 and the state of main before line 319.
RInit ==
    /\ rpc = "idle"
    /\ conn = <<>>
    /\ connOpen = FALSE
    /\ buffer = <<>>
    /\ demidx = 0
    /\ poridx = 0
    /\ jst = "soi"
    /\ landscape = FALSE
    /\ display = 0
    /\ calls = 0
    /\ ret = "none"
    /\ resize = "none"
    /\ scanned = <<>>
    /\ decoded = <<>>
    /\ decodeCalled = FALSE
    /\ orient = "none"
    /\ mpc = "first"
    /\ lpc = "off"
    /\ running = [u \in Units |-> 0]
    /\ caller = "main"
    /\ window = "none"
    /\ openConns = 0
    /\ dpc = "idle"
    /\ drawImg = 0
    /\ drawn = <<>>
    /\ layout = "none"
    /\ sent = <<>>
    /\ pre = [landscape |-> FALSE, display |-> 0]
    /\ log = <<>>

\* The device literal of lines 122-123 of the mutex variant.
XInit(v) ==
    /\ variant = v
    /\ xlock = "free"
    /\ xdisplay = <<>>
    /\ xx = 0
    /\ xy = 0
    /\ xb = <<0, 0>>
    /\ xdpc = "idle"
    /\ xdimg = <<>>
    /\ xdrawn = <<>>
    /\ xlpc = "idle"
    /\ xlayout = <<>>

\* The bytes of the stream of this call, consumed or not.
Stream == scanned \o decoded \o buffer \o Flatten(conn)

----------------------------------------------------------------------------
(* getDPTS1Addr: the UDP probe *)

\* The interface addresses a host may have: two in 203.0.113.0/24, one that
\* shares only a shorter prefix with it, one elsewhere.
IfAddrs ==
    { <<203, 0, 113, 5>>, <<203, 0, 113, 77>>, <<203, 0, 11, 3>>, <<192, 168, 1, 2>> }

IfAddrLists == UNION { [1..k -> IfAddrs] : k \in 0..MaxIfAddrs }

\* The datagrams that may arrive: from the device or from another host, with
\* the ack, the echoed probe, nothing, or more than one byte.
Senders == { <<203, 0, 113, 1>>, <<203, 0, 113, 9>> }

Payloads == { <<Ack>>, <<Probe>>, <<>>, <<Ack, 7>>, <<Probe, Ack>> }

Packets == [from : Senders, payload : Payloads]

\* strings.HasPrefix(addr.String(), "203.0.113.")
HasSubnetPrefix(a) == a[1] = 203 /\ a[2] = 0 /\ a[3] = 113

SecondMatchAccepted(l) == FALSE

\* if laddr != nil { return "", errors.New("multiple interfaces ...") }
SecondMatch(l) == l # <<>>

DeadlineNeverSet == "unset"

\* pc.SetDeadline(time.Now().Add(3 * time.Second))
DeadlineSet == "set"

\* ReadFrom(rcvdPkt) copies as much of the datagram as the one-byte buffer
\* holds; the number of bytes read is dropped.
ReadInto(buf, payload) == IF Len(payload) >= 1 THEN payload[1] ELSE buf

\* return, with the deferred pc.Close() once the socket is open
AReturn(a, e) ==
    /\ apc' = "returned"
    /\ aret' = [addr |-> a, err |-> e]
    /\ sock' = IF sock = "open" THEN "closed" ELSE sock

GetIfAddrs ==
    /\ strategy = "probe"
    /\ apc = "start"
    /\ \E l \in IfAddrLists : ifaddrs' = l
    /\ apc' = "ifloop"
    /\ UNCHANGED <<ifidx, laddr, sock, deadline, probes, rcvdPkt, raddr, lastPkt, aret>>
    /\ UNCHANGED <<strategy, bvars, rvars>>

GetIfAddrsErr ==
    /\ strategy = "probe"
    /\ apc = "start"
    /\ AReturn(<<>>, "ifaddrs")
    /\ UNCHANGED <<ifaddrs, ifidx, laddr, deadline, probes, rcvdPkt, raddr, lastPkt>>
    /\ UNCHANGED <<strategy, bvars, rvars>>

\* One iteration of the range loop of lines 19-26.
IfLoop ==
    /\ apc = "ifloop"
    /\ ifidx < Len(ifaddrs)
    /\ LET addr == ifaddrs[ifidx + 1]
       IN  IF HasSubnetPrefix(addr) /\ SecondMatch(laddr)
           THEN /\ AReturn(<<>>, "multiple")
                /\ UNCHANGED <<ifidx, laddr>>
           ELSE /\ ifidx' = ifidx + 1
                /\ laddr' = IF HasSubnetPrefix(addr) THEN addr ELSE laddr
                /\ UNCHANGED <<apc, aret, sock>>
    /\ UNCHANGED <<ifaddrs, deadline, probes, rcvdPkt, raddr, lastPkt>>
    /\ UNCHANGED <<strategy, bvars, rvars>>

\* Lines 27-29.
IfLoopEnd ==
    /\ apc = "ifloop"
    /\ ifidx = Len(ifaddrs)
    /\ IF laddr = <<>>
       THEN AReturn(<<>>, "nointerface")
       ELSE apc' = "listen" /\ UNCHANGED <<aret, sock>>
    /\ UNCHANGED <<ifaddrs, ifidx, laddr, deadline, probes, rcvdPkt, raddr, lastPkt>>
    /\ UNCHANGED <<strategy, bvars, rvars>>

\* Lines 32-41: the socket is opened and its deadline set.
Listen ==
    /\ apc = "listen"
    /\ sock' = "open"
    /\ deadline' = DeadlineSet
    /\ apc' = "write"
    /\ UNCHANGED <<ifaddrs, ifidx, laddr, probes, rcvdPkt, raddr, lastPkt, aret>>
    /\ UNCHANGED <<strategy, bvars, rvars>>

ListenErr ==
    /\ apc = "listen"
    /\ AReturn(<<>>, "listen")
    /\ UNCHANGED <<ifaddrs, ifidx, laddr, deadline, probes, rcvdPkt, raddr, lastPkt>>
    /\ UNCHANGED <<strategy, bvars, rvars>>

\* Line 42: pc.WriteTo([]byte{1}, multicastAddr)
WriteProbe ==
    /\ apc = "write"
    /\ deadline # "passed"
    /\ probes' = probes + 1
    /\ apc' = "read"
    /\ UNCHANGED <<ifaddrs, ifidx, laddr, sock, deadline, rcvdPkt, raddr, lastPkt, aret>>
    /\ UNCHANGED <<strategy, bvars, rvars>>

WriteErr ==
    /\ apc = "write"
    /\ AReturn(<<>>, "write")
    /\ UNCHANGED <<ifaddrs, ifidx, laddr, deadline, probes, rcvdPkt, raddr, lastPkt>>
    /\ UNCHANGED <<strategy, bvars, rvars>>

\* The three seconds of the deadline elapse.
DeadlinePass ==
    /\ deadline = "set"
    /\ apc \in {"write", "read"}
    /\ deadline' = "passed"
    /\ UNCHANGED <<apc, ifaddrs, ifidx, laddr, sock, probes, rcvdPkt, raddr, lastPkt, aret>>
    /\ UNCHANGED <<strategy, bvars, rvars>>

\* Lines 49-56: one ReadFrom that returns a datagram, and the loop test.
ReadPacket ==
    /\ apc = "read"
    /\ deadline # "passed"
    /\ \E pkt \in Packets :
          LET b == ReadInto(rcvdPkt, pkt.payload)
          IN  /\ rcvdPkt' = b
              /\ raddr' = pkt.from
              /\ lastPkt' = <<pkt>>
              /\ IF b # Ack
                 THEN UNCHANGED <<apc, aret, sock>>
                 ELSE AReturn(pkt.from, "nil")
    /\ UNCHANGED <<ifaddrs, ifidx, laddr, deadline, probes>>
    /\ UNCHANGED <<strategy, bvars, rvars>>

\* Lines 50-53: ReadFrom fails once the deadline has passed.
ReadTimeout ==
    /\ apc = "read"
    /\ deadline = "passed"
    /\ AReturn(<<>>, "timeout")
    /\ UNCHANGED <<ifaddrs, ifidx, laddr, deadline, probes, rcvdPkt, raddr, lastPkt>>
    /\ UNCHANGED <<strategy, bvars, rvars>>

AInit(pos) ==
    /\ apc = pos
    /\ ifaddrs = <<>>
    /\ ifidx = 0
    /\ laddr = <<>>
    /\ sock = "none"
    /\ deadline = "unset"
    /\ probes = 0
    /\ rcvdPkt = 0
    /\ raddr = <<>>
    /\ lastPkt = <<>>
    /\ aret = [addr |-> <<>>, err |-> "none"]

\* The entries of ifaddrs inside 203.0.113.0/24.
Matching == { k \in 1..Len(ifaddrs) : HasSubnetPrefix(ifaddrs[k]) }

----------------------------------------------------------------------------
(* getDPTS1AddrPolling: the parallel connect scan *)

\* for i := 0; i < 256; i++
Hosts == 0..(NumHosts - 1)

\* fmt.Sprintf("203.0.113.%d:54321", i)
RemoteAddr(i) == <<203, 0, 113, i, Port>>

WinnerLocalAddr(g) == <<203, 0, 113, 200, Port>>

\* c.RemoteAddr().String()
WinnerAddr(g) == RemoteAddr(g)

\* time.NewTimer(3 * time.Second): the timer fires once it runs.
TimerCanFire == timer = "running"

\* The deferred cancel() and the return.
BReturn(a, e) ==
    /\ bpc' = "returned"
    /\ cancelled' = TRUE
    /\ bret' = [addr |-> a, err |-> e]

\* go scan(i)
Spawn ==
    /\ strategy = "polling"
    /\ bpc = "spawn"
    /\ spawned < NumHosts
    /\ gpc' = [gpc EXCEPT ![spawned] = "dial"]
    /\ spawned' = spawned + 1
    /\ UNCHANGED <<accepting, bpc, gconn, cancelled, timer, received, early, bret>>
    /\ UNCHANGED <<strategy, avars, rvars>>

\* timer := time.NewTimer(3 * time.Second)
NewTimer ==
    /\ strategy = "polling"
    /\ bpc = "spawn"
    /\ spawned = NumHosts
    /\ timer' = "running"
    /\ bpc' = "select"
    /\ UNCHANGED <<accepting, spawned, gpc, gconn, cancelled, received, early, bret>>
    /\ UNCHANGED <<strategy, avars, rvars>>

\* dialer.DialContext returns a connection; once ctx is cancelled it returns
\* the context's error instead.
DialOK(g) ==
    /\ gpc[g] = "dial"
    /\ g \in accepting
    /\ ~cancelled
    /\ gconn' = [gconn EXCEPT ![g] = "open"]
    /\ gpc' = [gpc EXCEPT ![g] = "send"]
    /\ early' = IF timer # "fired" THEN early \cup {g} ELSE early
    /\ UNCHANGED <<accepting, bpc, spawned, cancelled, timer, received, bret>>
    /\ UNCHANGED <<strategy, avars, rvars>>

\* dialer.DialContext returns an error: refused, or the context is cancelled.
\* if conn != nil { conn.Close() }
DialErr(g) ==
    /\ gpc[g] = "dial"
    /\ g \notin accepting \/ cancelled
    /\ gconn' = [gconn EXCEPT ![g] = IF @ = "open" THEN "closed" ELSE @]
    /\ gpc' = [gpc EXCEPT ![g] = "done"]
    /\ UNCHANGED <<accepting, bpc, spawned, cancelled, timer, received, early, bret>>
    /\ UNCHANGED <<strategy, avars, rvars>>

TimerFire ==
    /\ TimerCanFire
    /\ timer' = "fired"
    /\ UNCHANGED <<accepting, bpc, spawned, gpc, gconn, cancelled, received, early, bret>>
    /\ UNCHANGED <<strategy, avars, rvars>>

\* connCh <- conn meets case c := <-connCh. With a sender waiting and the
\* timer fired, select takes either case.
Receive(g) ==
    /\ bpc = "select"
    /\ gpc[g] = "send"
    /\ received' = Append(received, g)
    /\ gpc' = [gpc EXCEPT ![g] = "done"]
    /\ bpc' = "recvd"
    /\ UNCHANGED <<accepting, spawned, gconn, cancelled, timer, early, bret>>
    /\ UNCHANGED <<strategy, avars, rvars>>

\* case <-timer.C
Timeout ==
    /\ bpc = "select"
    /\ timer = "fired"
    /\ BReturn(<<>>, "timeout")
    /\ UNCHANGED <<accepting, spawned, gpc, gconn, timer, received, early>>
    /\ UNCHANGED <<strategy, avars, rvars>>

\* defer c.Close(); return c.RemoteAddr().String(), nil
ReturnAddr ==
    /\ bpc = "recvd"
    /\ LET c == received[Len(received)]
       IN  /\ gconn' = [gconn EXCEPT ![c] = "closed"]
           /\ BReturn(WinnerAddr(c), "nil")
    /\ UNCHANGED <<accepting, spawned, gpc, timer, received, early>>
    /\ UNCHANGED <<strategy, avars, rvars>>

BInit(pos) ==
    /\ bpc = pos
    /\ spawned = 0
    /\ gpc = [g \in Hosts |-> "idle"]
    /\ gconn = [g \in Hosts |-> "none"]
    /\ cancelled = FALSE
    /\ timer = "unset"
    /\ received = <<>>
    /\ early = {}
    /\ bret = [addr |-> <<>>, err |-> "none"]

\* No step of the scan is possible any more: the caller has returned and every
\* goroutine has ended or waits to send on connCh, which nobody receives from.
Quiescent ==
    /\ bpc = "returned"
    /\ \A g \in Hosts : gpc[g] \in {"done", "send"}

----------------------------------------------------------------------------
(* Discovery: the caller runs one of the two strategies. *)

InitDiscovery ==
    /\ strategy \in {"probe", "polling"}
    /\ accepting \in SUBSET Hosts
    /\ strategy = "probe" => accepting = {}
    /\ AInit(IF strategy = "probe" THEN "start" ELSE "off")
    /\ BInit(IF strategy = "polling" THEN "spawn" ELSE "off")
    /\ RInit
    /\ XInit("atomic")

NextDiscovery ==
    \/ GetIfAddrs
    \/ GetIfAddrsErr
    \/ IfLoop
    \/ IfLoopEnd
    \/ Listen
    \/ ListenErr
    \/ WriteProbe
    \/ WriteErr
    \/ DeadlinePass
    \/ ReadPacket
    \/ ReadTimeout
    \/ Spawn
    \/ NewTimer
    \/ \E g \in Hosts : DialOK(g)
    \/ \E g \in Hosts : DialErr(g)
    \/ TimerFire
    \/ \E g \in Hosts : Receive(g)
    \/ Timeout
    \/ ReturnAddr

SpecDiscovery == InitDiscovery /\ [][NextDiscovery]_vars

\* The scheduler runs every goroutine that can run, calls into the system
\* return, and time passes; no datagram and no connection has to arrive.
FairDiscovery ==
    /\ SpecDiscovery
    /\ WF_vars(GetIfAddrs \/ GetIfAddrsErr)
    /\ WF_vars(IfLoop)
    /\ WF_vars(IfLoopEnd)
    /\ WF_vars(Listen \/ ListenErr)
    /\ WF_vars(WriteProbe \/ WriteErr)
    /\ WF_vars(DeadlinePass)
    /\ WF_vars(ReadTimeout)
    /\ WF_vars(Spawn)
    /\ WF_vars(NewTimer)
    /\ WF_vars(TimerFire)
    /\ WF_vars(Timeout)
    /\ WF_vars(ReturnAddr)

----------------------------------------------------------------------------
(* The first Refresh of main (line 319), over every stream of Streams. *)

InitFirst ==
    /\ RInit
    /\ XInit("atomic")
    /\ strategy = "none"
    /\ accepting = {}
    /\ AInit("off")
    /\ BInit("off")

NextFirst ==
    \/ Dial(1)
    \/ DialFail(1)
    \/ ScanStep
    \/ ScanEOF
    \/ DecodeStep
    \/ DecodeEOF
    \/ OrientStep
    \/ StoreStep

SpecFirst == InitFirst /\ [][NextFirst]_vars

----------------------------------------------------------------------------
(* main, the acquisition goroutine and the consumer (lines 291-335) *)

\* The streams of the connections of repeated calls: a portrait frame, a
\* landscape frame, a stream that ends inside the scan with poridx at its
\* full length, one that ends behind the delimiter, and one whose payload is
\* not an image, which leaves bytes behind in d.buffer when jpeg.Decode fails.
LoopStreams ==
    { <<PORTRAIT, ENDTAG, <<"SOI", "x", "EOI">>>>,
      <<ENDTAG, <<"SOI", "x", "EOI">>>>,
      <<PORTRAIT>>,
      <<ENDTAG>>,
      <<ENDTAG, PORTRAIT>> }

\* Line 319: d.Refresh()
MainRefresh(cap) == DialBy("main", LoopStreams, cap)

MainRefreshFail(cap) == DialFailBy("main", cap)

\* Lines 320-324: main sets the window size from d.landscape, whatever the
\* first Refresh returned.
MainSetWindow ==
    /\ variant = "atomic"
    /\ mpc = "first"
    /\ calls >= 1
    /\ running["main"] = 0
    /\ window' = IF landscape THEN "800x600" ELSE "600x800"
    /\ mpc' = "go"
    /\ UNCHANGED <<rpc, conn, connOpen, buffer, demidx, poridx, jst, landscape, display,
                   calls, ret, resize, scanned, decoded, decodeCalled, orient>>
    /\ UNCHANGED <<lpc, running, caller, openConns>>
    /\ UNCHANGED <<uvars, hvars>>
    /\ UNCHANGED <<xvars, dvars>>

\* Lines 326-331: go func() { for ;; { d.Refresh() } }(), then ebiten.RunGame.
GoLoop ==
    /\ mpc = "go"
    /\ lpc' = "loop"
    /\ mpc' = "rungame"
    /\ UNCHANGED <<rpc, conn, connOpen, buffer, demidx, poridx, jst, landscape, display,
                   calls, ret, resize, scanned, decoded, decodeCalled, orient>>
    /\ UNCHANGED <<running, caller, window, openConns>>
    /\ UNCHANGED <<uvars, hvars>>
    /\ UNCHANGED <<xvars, dvars>>

\* Line 328: d.Refresh() in the goroutine
LoopRefresh(cap) == DialBy("loop", LoopStreams, cap)

LoopRefreshFail(cap) == DialFailBy("loop", cap)

\* The frame of the consumer: it writes none of the fields of d.
ConsumerFrame ==
    /\ UNCHANGED <<rpc, conn, connOpen, buffer, demidx, poridx, jst, landscape, display,
                   calls, ret, resize, scanned, decoded, decodeCalled, orient>>
    /\ UNCHANGED <<mvars, hvars>>
    /\ UNCHANGED <<xvars, dvars>>

\* Draw, line 272: img := d.display.Load()
DrawLoad ==
    /\ mpc = "rungame"
    /\ dpc = "idle"
    /\ drawImg' = display
    /\ dpc' = "loaded"
    /\ UNCHANGED <<drawn, layout>>
    /\ ConsumerFrame

\* Draw, lines 273-280: if img != nil, d.landscape.Load() selects the
\* rotation and the image is drawn.
DrawImage ==
    /\ mpc = "rungame"
    /\ dpc = "loaded"
    /\ drawn' = IF drawImg # 0
                THEN <<[img |-> drawImg, landscape |-> landscape]>>
                ELSE drawn
    /\ dpc' = "idle"
    /\ UNCHANGED <<drawImg, layout>>
    /\ ConsumerFrame

\* Layout, lines 283-289
Layout ==
    /\ mpc = "rungame"
    /\ layout' = IF landscape THEN "1600x1200" ELSE "1200x1600"
    /\ UNCHANGED <<dpc, drawImg, drawn>>
    /\ ConsumerFrame

\* Update returns nil.
Update ==
    /\ mpc = "rungame"
    /\ UNCHANGED uvars
    /\ ConsumerFrame

\* The steps inside a Refresh call.
RefreshSteps ==
    \/ ScanStep
    \/ ScanEOF
    \/ DecodeStep
    \/ DecodeEOF
    \/ OrientStep
    \/ StoreStep

\* main and the goroutine, up to cap calls of Refresh.
Acquisition(cap) ==
    \/ MainRefresh(cap)
    \/ MainRefreshFail(cap)
    \/ MainSetWindow
    \/ GoLoop
    \/ LoopRefresh(cap)
    \/ LoopRefreshFail(cap)
    \/ RefreshSteps

NextLoop == Acquisition(MaxCalls)

\* The acquisition alone: the calls of Refresh one after another.
SpecLoop == InitFirst /\ [][NextLoop]_vars

NextUI ==
    \/ Acquisition(MaxUICalls)
    \/ DrawLoad
    \/ DrawImage
    \/ Layout
    \/ Update

\* The acquisition with the consumer running beside it.
SpecUI == InitFirst /\ [][NextUI]_vars

----------------------------------------------------------------------------
(* The variant that publishes under d.lock (src/main.go:1-170) *)

\* It dials, scans for ENDTAG and decodes as the atomic variant does
\* (lines 43-69; d.searchIndex is demidx), so DialBy, ScanStep, ScanEOF,
\* DecodeStep and DecodeEOF are its steps too; what follows a successful
\* jpeg.Decode, and the consumer, are its own.

\* The streams of its connections: two images of different bounds, and the
\* two that fail.
MutexStreams ==
    { <<ENDTAG, <<"SOI", "x", "EOI">>>>,
      <<ENDTAG, <<"SOI">> \o PORTRAIT \o <<"EOI">>>>,
      <<PORTRAIT>>,
      <<ENDTAG>> }

\* d.display.Bounds().Max of an image, (0, 0) standing for no image: the two
\* images differ in their bounds.
Bounds(img) ==
    IF img = <<>> THEN <<0, 0>>
    ELSE IF Len(img) = 3 THEN <<1200, 1600>> ELSE <<1600, 1200>>

\* The frame of a step of the mutex variant that is inside Refresh.
XRefreshFrame ==
    /\ UNCHANGED <<conn, buffer, demidx, poridx, jst, landscape, display, calls,
                   resize, scanned, decoded, decodeCalled, orient>>
    /\ UNCHANGED <<variant, xdpc, xdimg, xdrawn, xlpc, xlayout>>
    /\ UNCHANGED uvars
    /\ UNCHANGED dvars

\* The frame of a step of the mutex variant outside Refresh.
XFrame ==
    /\ UNCHANGED <<rpc, conn, connOpen, buffer, demidx, poridx, jst, landscape, display,
                   calls, ret, resize, scanned, decoded, decodeCalled, orient>>
    /\ UNCHANGED <<lpc, running, caller, openConns>>
    /\ UNCHANGED <<uvars, hvars>>
    /\ UNCHANGED dvars

\* Line 70: d.lock.Lock()
XLock ==
    /\ variant = "mutex"
    /\ rpc = "orient"
    /\ xlock = "free"
    /\ xlock' = "refresh"
    /\ rpc' = "xdisplay"
    /\ UNCHANGED <<connOpen, ret, xdisplay, xx, xy, xb>>
    /\ UNCHANGED <<mvars, hvars>>
    /\ XRefreshFrame

\* Line 71: d.display = img
XWriteDisplay ==
    /\ rpc = "xdisplay"
    /\ xdisplay' = decoded
    /\ rpc' = "xbounds"
    /\ UNCHANGED <<connOpen, ret, xlock, xx, xy, xb>>
    /\ UNCHANGED <<mvars, hvars>>
    /\ XRefreshFrame

\* Line 72: b := d.display.Bounds()
XReadBounds ==
    /\ rpc = "xbounds"
    /\ xb' = Bounds(xdisplay)
    /\ rpc' = "xx"
    /\ UNCHANGED <<connOpen, ret, xlock, xdisplay, xx, xy>>
    /\ UNCHANGED <<mvars, hvars>>
    /\ XRefreshFrame

\* Line 73: d.x = b.Max.X
XWriteX ==
    /\ rpc = "xx"
    /\ xx' = xb[1]
    /\ rpc' = "xy"
    /\ UNCHANGED <<connOpen, ret, xlock, xdisplay, xy, xb>>
    /\ UNCHANGED <<mvars, hvars>>
    /\ XRefreshFrame

\* Line 74: d.y = b.Max.Y
XWriteY ==
    /\ rpc = "xy"
    /\ xy' = xb[2]
    /\ rpc' = "xunlock"
    /\ UNCHANGED <<connOpen, ret, xlock, xdisplay, xx, xb>>
    /\ UNCHANGED <<mvars, hvars>>
    /\ XRefreshFrame

\* Lines 75-77: d.lock.Unlock(); ebiten.ScheduleFrame(); return nil
XUnlock ==
    /\ rpc = "xunlock"
    /\ xlock' = "free"
    /\ Return("ok")
    /\ UNCHANGED <<xdisplay, xx, xy, xb>>
    /\ XRefreshFrame

\* Line 125: ebiten.SetWindowSize(d.x / 2, d.y / 2), whatever the first
\* Refresh returned.
XMainSetWindow ==
    /\ variant = "mutex"
    /\ mpc = "first"
    /\ calls >= 1
    /\ running["main"] = 0
    /\ window' = <<xx \div 2, xy \div 2>>
    /\ mpc' = "go"
    /\ UNCHANGED xvars
    /\ XFrame

\* Draw, line 82: d.lock.Lock()
XDrawLock ==
    /\ variant = "mutex"
    /\ mpc = "rungame"
    /\ xdpc = "idle"
    /\ xlock = "free"
    /\ xlock' = "draw"
    /\ xdpc' = "copy"
    /\ UNCHANGED <<variant, xdisplay, xx, xy, xb, xdimg, xdrawn, xlpc, xlayout>>
    /\ UNCHANGED <<mpc, window>>
    /\ XFrame

\* Draw, line 83: img := ebiten.NewImageFromImage(d.display), which panics
\* on a nil image.
XDrawCopy ==
    /\ xdpc = "copy"
    /\ xdimg' = xdisplay
    /\ xdpc' = IF xdisplay = <<>> THEN "panic" ELSE "unlock"
    /\ UNCHANGED <<variant, xlock, xdisplay, xx, xy, xb, xdrawn, xlpc, xlayout>>
    /\ UNCHANGED <<mpc, window>>
    /\ XFrame

\* Draw, line 84: d.lock.Unlock()
XDrawUnlock ==
    /\ xdpc = "unlock"
    /\ xlock' = "free"
    /\ xdpc' = "test"
    /\ UNCHANGED <<variant, xdisplay, xx, xy, xb, xdimg, xdrawn, xlpc, xlayout>>
    /\ UNCHANGED <<mpc, window>>
    /\ XFrame

\* Draw, lines 85-89: if d.display != nil, the screen is cleared and img is
\* drawn.
XDrawTest ==
    /\ xdpc = "test"
    /\ xdrawn' = IF xdisplay # <<>> THEN <<xdimg>> ELSE xdrawn
    /\ xdpc' = "idle"
    /\ UNCHANGED <<variant, xlock, xdisplay, xx, xy, xb, xdimg, xlpc, xlayout>>
    /\ UNCHANGED <<mpc, window>>
    /\ XFrame

\* Layout, lines 93-94: d.lock.Lock(); defer d.lock.Unlock()
XLayoutLock ==
    /\ variant = "mutex"
    /\ mpc = "rungame"
    /\ xlpc = "idle"
    /\ xlock = "free"
    /\ xlock' = "layout"
    /\ xlpc' = "locked"
    /\ UNCHANGED <<variant, xdisplay, xx, xy, xb, xdpc, xdimg, xdrawn, xlayout>>
    /\ UNCHANGED <<mpc, window>>
    /\ XFrame

\* Layout, line 95: return d.x, d.y, and the deferred unlock
XLayoutReturn ==
    /\ xlpc = "locked"
    /\ xlayout' = <<xx, xy>>
    /\ xlock' = "free"
    /\ xlpc' = "idle"
    /\ UNCHANGED <<variant, xdisplay, xx, xy, xb, xdpc, xdimg, xdrawn>>
    /\ UNCHANGED <<mpc, window>>
    /\ XFrame

InitMutex ==
    /\ RInit
    /\ XInit("mutex")
    /\ strategy = "none"
    /\ accepting = {}
    /\ AInit("off")
    /\ BInit("off")

NextMutex ==
    \/ DialBy("main", MutexStreams, MaxUICalls)
    \/ DialFailBy("main", MaxUICalls)
    \/ XMainSetWindow
    \/ GoLoop
    \/ DialBy("loop", MutexStreams, MaxUICalls)
    \/ DialFailBy("loop", MaxUICalls)
    \/ ScanStep
    \/ ScanEOF
    \/ DecodeStep
    \/ DecodeEOF
    \/ XLock
    \/ XWriteDisplay
    \/ XReadBounds
    \/ XWriteX
    \/ XWriteY
    \/ XUnlock
    \/ XDrawLock
    \/ XDrawCopy
    \/ XDrawUnlock
    \/ XDrawTest
    \/ XLayoutLock
    \/ XLayoutReturn

\* The mutex variant: the acquisition with Draw and Layout beside it.
SpecMutex == InitMutex /\ [][NextMutex]_vars

----------------------------------------------------------------------------
(* Claims about the scan of Refresh, checked under SpecFirst *)

\* The call is past the scan loop: jpeg.Decode has been called.
PastScan == rpc \in {"decode", "orient", "store"} \/ ret \in {"ok", "decodeerr"}

\* C1: whenever the stream holds the delimiter, the scan loop ends successfully
\* having consumed exactly the bytes up to the end of its first occurrence, as
\* a first-occurrence search of the stream does.
C1_ScanFindsFirstDelimiter ==
    /\ PastScan => Len(scanned) = FirstEnd(Stream, ENDTAG)
    /\ ret = "scanerr" => ~Contains(Stream, ENDTAG)

\* C2: a successful Refresh determines portrait exactly when "portrait" occurs
\* in the bytes the scan consumed, and landscape otherwise.
C2_PortraitIffMarkerScanned ==
    ret = "ok" => (orient = "portrait" <=> Contains(scanned, PORTRAIT))

\* C3: the bytes that follow the delimiter on which the scan ended never move
\* the orientation cursor: when "portrait" does not occur in the bytes the
\* scan consumed, the cursor stays below full length while the payload is
\* decoded and the call determines landscape, also when "portrait" occurs in
\* the payload.
C3_PayloadNeverSetsPortrait ==
    (PastScan /\ ~Contains(scanned, PORTRAIT)) =>
        /\ poridx < Len(PORTRAIT)
        /\ orient # "portrait"
        /\ ret = "ok" => orient = "landscape"

C3_PortraitInPayload ==
    /\ ret = "ok"
    /\ orient = "landscape"
    /\ ~Contains(scanned, PORTRAIT)
    /\ Contains(decoded, PORTRAIT)

\* C4: jpeg.Decode is called, and reads, only once the delimiter cursor has
\* reached the delimiter's length; a call whose stream ends before that returns
\* the read error without a decode.
C4_NoDecodeBeforeDelimiter ==
    /\ (decodeCalled \/ decoded # <<>> \/ PastScan) => demidx = Len(ENDTAG)
    /\ (rpc = "idle" /\ calls > 0 /\ demidx < Len(ENDTAG)) =>
           /\ ret \in {"scanerr", "dialerr"}
           /\ ~decodeCalled
           /\ decoded = <<>>
    /\ ret = "scanerr" => (demidx < Len(ENDTAG) /\ ~CanRead)

C4_StreamEndedInsideDelimiter ==
    /\ ret = "scanerr"
    /\ demidx > 0
    /\ scanned # <<>>
    /\ ~decodeCalled

----------------------------------------------------------------------------
(* Claims about discovery, checked under SpecDiscovery and FairDiscovery *)

\* C5: every connection a scan goroutine established is closed in the end:
\* once no step of the scan is possible, none is open.
C5_NoSocketLeak == Quiescent => \A g \in Hosts : gconn[g] # "open"

\* C6: every scan goroutine ends: once no step of the scan is possible, none
\* waits on connCh.
C6_EveryGoroutineEnds == Quiescent => \A g \in Hosts : gpc[g] = "done"

\* What the scan returns when it returns an address: the address of the host
\* whose connection was the first received from connCh, a host that accepted,
\* with that connection closed.
WinnerReturned ==
    /\ Len(received) = 1
    /\ received[1] \in accepting
    /\ bret.addr = RemoteAddr(received[1])
    /\ gconn[received[1]] = "closed"

\* C7 as stated: the address returned is that of the first connection
\* received, of a host that accepted, closed before the return; and when
\* exactly one host accepts before the timer fires, its address is returned.
C7_WinnerWheneverOneAccepts ==
    bpc = "returned" =>
        /\ bret.err = "nil" => WinnerReturned
        /\ (Cardinality(accepting) = 1 /\ early = accepting) =>
               /\ bret.err = "nil"
               /\ \A g \in accepting : bret.addr = RemoteAddr(g)

\* C7 as amended: the address returned is that of the first connection
\* received, of a host that accepted, closed before the return; the scan
\* returns an error only after the timer fired, with nothing received; and
\* when exactly one host accepts, the scan returns that host's address or,
\* the timer having fired before its connection was received, the timeout error.
C7_Winner ==
    bpc = "returned" =>
        /\ bret.err = "nil" => WinnerReturned
        /\ bret.err # "nil" =>
               /\ bret = [addr |-> <<>>, err |-> "timeout"]
               /\ timer = "fired"
               /\ received = <<>>
        /\ Cardinality(accepting) = 1 =>
               \/ bret.err = "nil" /\ \A g \in accepting : bret.addr = RemoteAddr(g)
               \/ bret.err = "timeout" /\ timer = "fired"

C7_SingleHostWon ==
    /\ bpc = "returned"
    /\ Cardinality(accepting) = 1
    /\ bret.err = "nil"
    /\ \A g \in accepting : bret.addr = RemoteAddr(g) /\ gconn[g] = "closed"

\* C8: both strategies complete. The call returns in every run; the scan
\* returns the timeout error and no address when no connect attempt succeeded;
\* the probe, once its deadline has passed, returns the timeout error, whatever
\* datagrams arrived before.
C8_DiscoveryCompletes ==
    /\ <>(apc = "returned" \/ bpc = "returned")
    /\ [](bpc = "returned" /\ (\A g \in Hosts : gconn[g] = "none")
            => bret = [addr |-> <<>>, err |-> "timeout"])
    /\ (apc = "read" /\ deadline = "passed")
            ~> (apc = "returned" /\ aret = [addr |-> <<>>, err |-> "timeout"])

C8_ProbeTimedOutAfterPackets ==
    /\ apc = "returned"
    /\ aret.err = "timeout"
    /\ deadline = "passed"
    /\ lastPkt # <<>>
    /\ lastPkt[1].payload = <<Probe>>

\* C9: with two or more interface addresses in the subnet the probe fails with
\* the ambiguous-interface error, with none it fails with the no-interface
\* error, in both cases with no socket opened, no deadline set, nothing sent
\* and nothing read; the socket is opened only when exactly one matches.
C9_InterfaceSelection ==
    (apc \notin {"off", "start"} /\ aret.err # "ifaddrs") =>
        /\ Cardinality(Matching) # 1 =>
               /\ apc \in {"ifloop", "returned"}
               /\ sock = "none"
               /\ deadline = "unset"
               /\ probes = 0
               /\ lastPkt = <<>>
        /\ (apc = "returned" /\ Cardinality(Matching) >= 2) =>
               aret = [addr |-> <<>>, err |-> "multiple"]
        /\ (apc = "returned" /\ Cardinality(Matching) = 0) =>
               aret = [addr |-> <<>>, err |-> "nointerface"]
        /\ (sock # "none" \/ probes > 0 \/ lastPkt # <<>>) => Cardinality(Matching) = 1

C9_AmbiguousInterfaces ==
    /\ apc = "returned"
    /\ \E i, j \in Matching : ifaddrs[i] # ifaddrs[j]
    /\ aret.err = "multiple"
    /\ sock = "none"

\* C10: a datagram whose payload is not exactly the one ack byte is discarded
\* without an error, and the address returned is the sender of a datagram
\* whose payload is exactly the ack byte.
C10_OnlyExactAckAccepted ==
    /\ (apc = "returned" /\ aret.err = "nil") =>
           /\ lastPkt # <<>>
           /\ lastPkt[1].payload = <<Ack>>
           /\ aret.addr = lastPkt[1].from
    /\ (lastPkt # <<>> /\ lastPkt[1].payload # <<Ack>>) =>
           \/ apc = "read"
           \/ apc = "returned" /\ aret.err = "timeout"

----------------------------------------------------------------------------
(* Claims about repeated Refresh calls *)

\* The last of the first i calls of l that succeeded; 0 when none did.
LastOk(l, i) ==
    IF \E j \in 1..i : l[j].ret = "ok"
    THEN CHOOSE j \in 1..i :
            /\ l[j].ret = "ok"
            /\ \A k \in (j + 1)..i : l[k].ret # "ok"
    ELSE 0

\* The orientation published by the first i calls of l: portrait by default.
PublishedAfter(l, i) == IF LastOk(l, i) = 0 THEN "portrait" ELSE l[LastOk(l, i)].orient

\* C11: over any sequence of Refresh calls, starting from portrait, a call
\* signals a window resize exactly when it succeeded with an orientation that
\* differs from the one published before it, and the size it sets is that of
\* its orientation; a success of the same orientation and a failed call
\* signal nothing.
C11_EdgeTriggeredResize ==
    \A i \in 1..Len(log) :
        LET changed == log[i].ret = "ok" /\ log[i].orient # PublishedAfter(log, i - 1)
        IN  /\ log[i].resize # "none" <=> changed
            /\ changed /\ log[i].orient = "landscape" => log[i].resize = "800x600"
            /\ changed /\ log[i].orient = "portrait" => log[i].resize = "600x800"

\* C11 witness: five successes, portrait portrait landscape landscape
\* portrait, signalled a resize in the third and the fifth only.
C11_ResizedAtThirdAndFifth ==
    /\ Len(log) = 5
    /\ \A i \in 1..5 : log[i].ret = "ok"
    /\ [i \in 1..5 |-> log[i].orient] =
           <<"portrait", "portrait", "landscape", "landscape", "portrait">>
    /\ [i \in 1..5 |-> log[i].resize] = <<"none", "none", "800x600", "none", "600x800">>

\* C12: when a Refresh call fails, by a dial failure, a stream that ended
\* before the delimiter or a JPEG decode failure, d.display and d.landscape
\* are what they were when the call started and no resize was signalled.
C12_FailureChangesNothing ==
    /\ rpc = "idle" /\ ret \in Errs =>
          /\ display = pre.display
          /\ landscape = pre.landscape
          /\ resize = "none"
    /\ rpc \in {"scan", "decode"} =>
          /\ display = pre.display
          /\ landscape = pre.landscape
          /\ resize = "none"

\* C12 witness: a decode failure after a landscape frame was published.
C12_DecodeFailedAfterLandscape ==
    /\ rpc = "idle"
    /\ ret = "decodeerr"
    /\ decoded # <<>>
    /\ pre.display # 0
    /\ pre.landscape

\* C13: a failure of Refresh never stops the acquisition: main goes on to
\* start the goroutine whatever the first call returned, the goroutine can
\* start another call whenever its last one has returned, whatever it
\* returned (up to MaxCalls calls), and a call that succeeds has published
\* its frame whatever came before it.
C13_LoopGoesOnAfterFailure ==
    /\ mpc = "first" /\ calls = 1 /\ running["main"] = 0 => ENABLED MainSetWindow
    /\ mpc = "go" => ENABLED GoLoop
    /\ lpc = "loop" /\ running["loop"] = 0 /\ calls < MaxCalls =>
          /\ ENABLED LoopRefresh(MaxCalls)
          /\ ENABLED LoopRefreshFail(MaxCalls)
    /\ rpc = "idle" /\ ret = "ok" => display = calls

\* C13 witness: a frame published by the goroutine after three failures in a
\* row, one of each kind.
C13_PublishedAfterFailures ==
    /\ rpc = "idle"
    /\ ret = "ok"
    /\ display = calls
    /\ Len(log) >= 4
    /\ {log[Len(log) - k].ret : k \in 1..3} = Errs

\* C15: every connection a Refresh call opens is closed when the call has
\* returned, on every path, and at most one is open at any time.
C15_ConnectionClosedOnReturn ==
    /\ openConns <= 1
    /\ rpc = "idle" => openConns = 0 /\ ~connOpen
    /\ rpc # "idle" => openConns = 1 /\ connOpen

\* C15 witness: calls have returned through the scan error, the decode
\* error and the success path, and nothing is open.
C15_ReturnedOnEveryPath ==
    /\ rpc = "idle"
    /\ openConns = 0
    /\ {"scanerr", "decodeerr", "ok"} \subseteq {log[i].ret : i \in 1..Len(log)}

\* C16: the outcome of a call (what it returns, the bytes the scan consumed,
\* the orientation) depends on the stream of its connection only: two calls
\* fed the same stream give the same outcome whatever calls came before, and
\* a call starts with both cursors at zero and nothing in d.buffer.
C16_NoCrossCallState ==
    /\ \A i, j \in 1..Len(log) :
          /\ log[i].ret # "dialerr"
          /\ log[j].ret # "dialerr"
          /\ log[i].sent = log[j].sent
          => /\ log[i].ret = log[j].ret
             /\ log[i].n = log[j].n
             /\ log[i].orient = log[j].orient
    /\ rpc = "scan" /\ scanned = <<>> => demidx = 0 /\ poridx = 0 /\ buffer = <<>>

\* C16 witness: the same stream fed to the first call and to a call that
\* follows one which left bytes in d.buffer and one which left poridx at its
\* full length.
C16_SameStreamAfterLeftovers ==
    /\ Len(log) = 4
    /\ log[1].sent = log[4].sent
    /\ log[1].ret = "ok"
    /\ log[2].ret = "scanerr"
    /\ log[3].ret = "decodeerr"
    /\ buffer # <<>>
    /\ log[3].sent = <<ENDTAG, PORTRAIT>>

\* C19: between calls d.landscape is the orientation of the last call that
\* succeeded, portrait when none has; inside a call it is still that until
\* the compare-and-swap, and the orientation of the call after it.
C19_FlagTracksLastSuccess ==
    /\ rpc \in {"idle", "scan", "decode", "orient"} =>
          (landscape <=> PublishedAfter(log, Len(log)) = "landscape")
    /\ rpc = "store" => (landscape <=> orient = "landscape")

\* C19 witness: landscape, then portrait, then a failure: the flag is portrait.
C19_BackToPortraitThenFailure ==
    /\ rpc = "idle"
    /\ Len(log) = 3
    /\ log[1].ret = "ok" /\ log[1].orient = "landscape"
    /\ log[2].ret = "ok" /\ log[2].orient = "portrait"
    /\ log[3].ret \in Errs
    /\ ~landscape

----------------------------------------------------------------------------
(* Claims about the hand-over from the scan to jpeg.Decode *)

\* C17: whenever the scan loop has ended with demidx at its full length, the
\* last 11 bytes it consumed are the delimiter, and jpeg.Decode reads on at
\* the byte behind it: what the scan consumed, what the decoder consumed and
\* what is still unread are, in this order, the stream the peer sent, with
\* no byte skipped and none read twice.
C17_ScanEndsOnDelimiter ==
    /\ PastScan =>
          /\ demidx = Len(ENDTAG)
          /\ OccursAt(scanned, ENDTAG, Len(scanned))
    /\ ret # "dialerr" => scanned \o decoded \o buffer \o Flatten(conn) = Flatten(sent)
    /\ ~decodeCalled => decoded = <<>>

\* C17 witness: a broken delimiter, then the delimiter and the image in one
\* segment, so that the decoder starts inside what the scan had buffered.
C17_DecodedFromBufferedSegment ==
    /\ ret = "ok"
    /\ sent = << <<"<", "/", "c", "o", "m", "m", ">">>, ENDTAG \o <<"SOI", "x", "EOI">> >>
    /\ decoded = <<"SOI", "x", "EOI">>
    /\ Len(scanned) = 18

----------------------------------------------------------------------------
(* Claims about the consumer beside the acquisition *)

\* C14: the image the consumer loads and the orientation flag it loads
\* belong to the same successful call of Refresh: what Draw drew is an image
\* together with the orientation that the call which stored it determined.
C14_FrameAndFlagOfOneCall ==
    drawn # <<>> =>
        (drawn[1].landscape <=> log[drawn[1].img].orient = "landscape")

\* The Refresh calls in flight.
InFlight == running["main"] + running["loop"]

\* A step that writes d.display, d.landscape or d.buffer is a step of the one
\* Refresh call in flight, and no step of Draw, Layout or Update.
WrittenByRefreshOnly ==
    display' # display \/ landscape' # landscape \/ buffer' # buffer =>
        /\ rpc # "idle" \/ rpc' # "idle"
        /\ running[caller] = 1 \/ running'[caller'] = 1
        /\ uvars' = uvars

\* C18: at most one Refresh call is in flight at any time: the call of main
\* has returned before the goroutine starts, and the goroutine runs its calls
\* one after another; so d.display, d.landscape and d.buffer are written by
\* one execution unit at a time, and never by the consumer.
C18_SingleWriter ==
    /\ [](InFlight <= 1)
    /\ [](lpc = "loop" => running["main"] = 0 /\ mpc = "rungame")
    /\ [][WrittenByRefreshOnly]_vars

\* C18 witness: the goroutine is about to store a frame over the one main
\* published, while Draw is between its two loads.
C18_LoopStoresWhileDrawRuns ==
    /\ rpc = "store"
    /\ caller = "loop"
    /\ running["loop"] = 1
    /\ display = 1
    /\ dpc = "loaded"

----------------------------------------------------------------------------
(* Claims about the variant that publishes under d.lock *)

\* Refresh, Draw or Layout is about to read or write d.display, d.x or d.y.
XRefreshAccesses == rpc \in {"xdisplay", "xbounds", "xx", "xy"}

XDrawAccesses == xdpc \in {"copy", "test"}

XLayoutAccesses == xlpc = "locked"

\* C20: every read and write of d.display, d.x and d.y by Refresh, Draw and
\* Layout is made by the holder of d.lock, so Draw never reads d.display
\* while Refresh is about to write it, and whenever the lock is free
\* (d.x, d.y) are the bounds of the image in d.display.
C20_LockDiscipline ==
    /\ XRefreshAccesses => xlock = "refresh"
    /\ XDrawAccesses => xlock = "draw"
    /\ XLayoutAccesses => xlock = "layout"
    /\ ~(XDrawAccesses /\ rpc = "xdisplay")
    /\ xlock = "free" => <<xx, xy>> = Bounds(xdisplay)

====
